---- MODULE Spec2Model ----
(***************************************************************************)
(* A model of kicad-xilinx-symgen (src/main.rs): the line scanner that     *)
(* finds a whitespace-aligned pin table in a text file, the grouping and   *)
(* sorting of the parsed records, and the emission of a KiCad symbol       *)
(* library.                                                                *)
(*                                                                         *)
(* A text is a sequence of one-character strings.  A Record is a function  *)
(* from field names to values; the records vector is a sequence of them    *)
(* and a record is identified by its position in that vector, so that two  *)
(* rows with the same text are still two records.  Option<T> is the empty  *)
(* sequence (None) or a one-element sequence (Some).                       *)
(***************************************************************************)
EXTENDS Integers, Sequences, FiniteSets, TLC

\* ------------------------------------------------------------------ bounds
\* The longest input file, in lines.
MaxLines == 5
\* The largest number the user types at a selector prompt.
MaxIndex == 3

\* ------------------------------------------------------------- characters
\* The characters of the modelled inputs, in ascending byte order.
AsciiOrder ==
    <<"\t", " ", "0", "1", "2", "A", "B", "C", "K", "L", "N", "P", "V",
      "a", "c", "e", "i", "k", "m", "n">>

Ord(c) == CHOOSE i \in 1..Len(AsciiOrder) : AsciiOrder[i] = c

\* \s of the regex crate and char::is_whitespace, on the modelled characters.
IsSpace(c) == c \in {" ", "\t"}

None == <<>>
Some(x) == <<x>>
\* Option::unwrap on a Some; on None the caller panics (modelled there).
Unwrap(opt) == opt[1]

Min(a, b) == IF a < b THEN a ELSE b

\* ------------------------------------------------- line splitting (regex)
\* Regex ^\s*$ : the line holds nothing but whitespace.
re_blank(line) == \A i \in 1..Len(line) : IsSpace(line[i])

\* str::trim : the line without its leading and trailing whitespace.
Trim(line) ==
    LET solid == {i \in 1..Len(line) : ~IsSpace(line[i])}
    IN  IF solid = {} THEN <<>>
        ELSE LET first == CHOOSE i \in solid : \A j \in solid : i <= j
                 last  == CHOOSE i \in solid : \A j \in solid : j <= i
             IN  SubSeq(line, first, last)

\* The end of the whitespace run of s that starts at i.
RECURSIVE RunEnd(_, _)
RunEnd(s, i) ==
    IF i < Len(s) /\ IsSpace(s[i + 1]) THEN RunEnd(s, i + 1) ELSE i

\* Regex::split with \s{2,} : scan s from position i, cur is the piece being
\* collected and acc the pieces already cut.  A (greedy) run of two or more
\* whitespace characters is a separator; a single one stays in the piece.
RECURSIVE SplitFrom(_, _, _, _)
SplitFrom(s, i, cur, acc) ==
    IF i > Len(s) THEN Append(acc, cur)
    ELSE IF IsSpace(s[i]) /\ RunEnd(s, i) - i + 1 >= 2
         THEN SplitFrom(s, RunEnd(s, i) + 1, <<>>, Append(acc, cur))
         ELSE SplitFrom(s, i + 1, Append(cur, s[i]), acc)

\* A mutant of the splitter: every whitespace character separates.
RECURSIVE SplitOnAnySpace(_, _, _, _)
SplitOnAnySpace(s, i, cur, acc) ==
    IF i > Len(s) THEN Append(acc, cur)
    ELSE IF IsSpace(s[i])
         THEN SplitOnAnySpace(s, RunEnd(s, i) + 1, <<>>, Append(acc, cur))
         ELSE SplitOnAnySpace(s, i + 1, Append(cur, s[i]), acc)

re_spilt_header(s, i, cur, acc) == SplitFrom(s, i, cur, acc)

\* re_spilt_header.split(line.trim()).collect()
SplitLine(line) == re_spilt_header(Trim(line), 1, <<>>, <<>>)

\* ----------------------------------------------------------------- Record
\* Record::new : zip the headers with the values; a repeated header keeps the
\* last value.
Record_new(hs, vs) ==
    LET n    == Min(Len(hs), Len(vs))
        keys == {hs[i] : i \in 1..n}
        lastOf(k) == CHOOSE i \in 1..n :
                        hs[i] = k /\ \A j \in 1..n : hs[j] = k => j <= i
    IN  [k \in keys |-> vs[lastOf(k)]]

\* HashMap::get
FieldsGet(rec, key) == IF key \in DOMAIN rec THEN Some(rec[key]) ELSE None

\* --------------------------------------------------------------- the input
Pin     == <<"P", "i", "n">>
PinName == <<"P", "i", "n", " ", "N", "a", "m", "e">>
Bank    == <<"B", "a", "n", "k">>
Gap     == <<" ", " ">>

\* The lines a file is made of: the two kinds of blank line, the table's
\* header, three rows (one of them ragged: leading and trailing whitespace,
\* a tab inside a separator, a separator of three spaces) and a line of two
\* fields, the second with a single space inside; read as a header, that
\* line names Pin but not Pin Name.
BlankLine  == <<>>
SpaceLine  == <<" ", "\t">>
HeaderLine == Pin \o Gap \o PinName \o Gap \o Bank
RowA2      == <<"A", "2">> \o Gap \o <<"C", "L", "K">> \o Gap \o <<"0">>
RowA1      == <<" ", "A", "1", " ", "\t", " ", "V", "C", "C", " ", " ", " ", "0", " ">>
RowB1      == <<"B", "1">> \o Gap \o <<"C", "L", "K">> \o Gap \o <<"1">>
ShortLine  == Pin \o Gap \o <<"n", " ", "c">>

Lines == {BlankLine, SpaceLine, HeaderLine, RowA2, RowA1, RowB1, ShortLine}

\* What the user types at a selector prompt: a number, or (-1) a text that
\* does not parse as usize.
SelectorInputs == (0..MaxIndex) \cup {-1}

\* The optional symbol name of the command line.
Names == {None, Some("xc7z020")}

VARIABLES
    tty,          \* whether term_size::dimensions() finds a terminal
    args_name,    \* args.name
    pc,           \* where main is
    line_num,     \* lines consumed so far
    state,        \* the scanner's States value
    headers,      \* Vec<String>
    records,      \* Vec<Record>
    pins_count,   \* usize
    matching,     \* history: lines consumed that the table rule accepts
    field_index,  \* Option: the group selector as parsed
    sort_field_index, \* Option: the sort selector as parsed
    group_field,  \* Option: the header chosen to group by
    sort_field,   \* Option: the header chosen to sort by
    groups,       \* HashMap<String, Vec<Record>>: key -> record positions
    iter_order,   \* the order in which this run's HashMap iterates its keys
    stderr,       \* the lines written by eprintln!
    kicad_lib,    \* the document under construction, a sequence of lines
    output_lib,   \* Option: the content of output.lib
    report        \* Option: the numbers of the closing println!

vars == <<tty, args_name, pc, line_num, state, headers, records, pins_count,
          matching, field_index, sort_field_index, group_field, sort_field, groups, iter_order, stderr,
          kicad_lib, output_lib, report>>

scanVars == <<state, headers, records, pins_count>>
lateVars == <<field_index, sort_field_index, group_field, sort_field, groups, iter_order, stderr, kicad_lib,
              output_lib, report>>

Init ==
    /\ tty \in BOOLEAN
    /\ args_name \in Names
    /\ pc = "open"
    /\ line_num = 0
    /\ state = "SeekTable"
    /\ headers = <<>>
    /\ records = <<>>
    /\ pins_count = 0
    /\ matching = 0
    /\ field_index = None
    /\ sort_field_index = None
    /\ group_field = None
    /\ sort_field = None
    /\ groups = <<>>
    /\ iter_order = <<>>
    /\ stderr = <<>>
    /\ kicad_lib = <<>>
    /\ output_lib = None
    /\ report = None

\* ------------------------------------------------- the table rule, stated
\* The number of fields of a line as the table rule counts them: one more
\* than the number of maximal runs of two or more whitespace characters
\* inside the trimmed line.
FieldCount(line) ==
    LET t == Trim(line)
    IN  1 + Cardinality({i \in 1..(Len(t) - 1) :
                            /\ IsSpace(t[i]) /\ IsSpace(t[i + 1])
                            /\ (i = 1 \/ ~IsSpace(t[i - 1]))})

\* A line consumed in scanner state st adds a record by the table rule.
Accepted(st, hs, line) ==
    /\ st = "ReadTable"
    /\ \E i \in 1..Len(line) : ~IsSpace(line[i])
    /\ FieldCount(line) = Len(hs)

Count(st, hs, line) == IF Accepted(st, hs, line) THEN 1 ELSE 0

\* ------------------------------------------------------------ the scanner
\* File::open(args.file)?
OpenFile ==
    /\ pc = "open"
    /\ pc' = "scan"
    /\ UNCHANGED <<tty, args_name, line_num, scanVars, matching, lateVars>>

OpenFileFails ==
    /\ pc = "open"
    /\ pc' = "io_error"
    /\ UNCHANGED <<tty, args_name, line_num, scanVars, matching, lateVars>>

\* A line is there to be consumed.
Consume(line) ==
    /\ pc = "scan"
    /\ line_num < MaxLines
    /\ line_num' = line_num + 1
    /\ matching' = matching + Count(state, headers, line)
    /\ UNCHANGED <<tty, args_name, lateVars>>

\* println!("{}", "-".repeat(term_size::dimensions().unwrap().0)) and the
\* assignment to state that follows it: without a terminal the unwrap panics.
Separator(next) ==
    IF tty THEN pc' = pc /\ state' = next
    ELSE pc' = "panicked" /\ state' = state

\* States::SeekTable
SeekTableLine ==
    \E line \in Lines :
        /\ state = "SeekTable"
        /\ Consume(line)
        /\ IF re_blank(line) THEN Separator("ReadHeader")
           ELSE pc' = pc /\ state' = state
        /\ UNCHANGED <<headers, records, pins_count>>

\* States::ReadHeader
ReadHeaderLine ==
    \E line \in Lines :
        /\ state = "ReadHeader"
        /\ Consume(line)
        /\ headers' = SplitLine(line)
        /\ state' = "ReadTable"
        /\ pc' = pc
        /\ UNCHANGED <<records, pins_count>>

\* A mutant of the table arm: a second blank-delimited block starts over.
ReadTableLineRestarts ==
    \E line \in Lines :
        /\ state = "ReadTable"
        /\ Consume(line)
        /\ IF re_blank(line)
           THEN state' = "ReadHeader" /\ records' = <<>>
           ELSE state' = state /\ records' = records
        /\ pc' = pc
        /\ UNCHANGED <<headers, pins_count>>

\* States::ReadTable
ReadTableLine ==
    \E line \in Lines :
        /\ state = "ReadTable"
        /\ Consume(line)
        /\ IF re_blank(line)
           THEN Separator("END") /\ records' = records
           ELSE LET values == SplitLine(line)
                IN  /\ records' = IF Len(values) = Len(headers)
                                  THEN Append(records, Record_new(headers, values))
                                  ELSE records
                    /\ pc' = pc /\ state' = state
        /\ UNCHANGED <<headers, pins_count>>

\* States::END
EndLine ==
    \E line \in Lines :
        /\ state = "END"
        /\ Consume(line)
        /\ pins_count' = Len(records)
        /\ pc' = pc
        /\ UNCHANGED <<state, headers, records>>

\* l.unwrap() on a line that cannot be read (an I/O error, invalid UTF-8).
ReadLineFails ==
    /\ pc = "scan"
    /\ line_num < MaxLines
    /\ pc' = "panicked"
    /\ UNCHANGED <<tty, args_name, line_num, scanVars, matching, lateVars>>

\* lines_iter.next() is None: the loop ends and the headers are listed.
EndOfInput ==
    /\ pc = "scan"
    /\ pc' = "group"
    /\ UNCHANGED <<tty, args_name, line_num, scanVars, matching, lateVars>>

\* -------------------------------------------------------------- selectors
\* input.trim().parse::<usize>() : None for a text that is no usize.
ParseUsize(input) == IF input >= 0 THEN Some(input) ELSE None

\* A mutant of the indexing: an index past the end is clamped to the last
\* header (to the first when it is the only one).
HeaderAtClamped(hs, i) ==
    IF hs = <<>> THEN None
    ELSE IF i < Len(hs) THEN Some(hs[i + 1]) ELSE Some(hs[Len(hs)])

\* &headers[i] : None stands for the bounds-check panic.
HeaderAt(hs, i) == IF i < Len(hs) THEN Some(hs[i + 1]) ELSE None

\* if index >= headers.len() { eprintln!("Invalid field index"); }
Complain(hs, i) ==
    IF i >= Len(hs) THEN Append(stderr, "Invalid field index") ELSE stderr

\* ---------------------------------------------------------------- grouping
\* A mutant of the insertion: the group is replaced instead of extended.
PushReplacing(gs, key, id) ==
    [k \in DOMAIN gs \cup {key} |-> IF k = key THEN <<id>> ELSE gs[k]]

\* groups.entry(key).or_insert_with(Vec::new).push(record)
Push(gs, key, id) ==
    IF key \in DOMAIN gs
    THEN [gs EXCEPT ![key] = Append(@, id)]
    ELSE [k \in DOMAIN gs \cup {key} |-> IF k = key THEN <<id>> ELSE gs[k]]

\* for record in records { ... } from record id on, into gs.
RECURSIVE GroupFrom(_, _, _, _)
GroupFrom(recs, field, id, gs) ==
    IF id > Len(recs) THEN gs
    ELSE GroupFrom(recs, field, id + 1,
                   Push(gs, Unwrap(FieldsGet(recs[id], field)), id))

\* Lines 117-136: the group selector is read, checked and used.
ReadGroupField ==
    \E input \in SelectorInputs :
        /\ pc = "group"
        /\ field_index' = ParseUsize(input)
        /\ LET index == ParseUsize(input)
           IN  IF index = None
               THEN /\ pc' = "panicked"
                    /\ UNCHANGED <<stderr, group_field, groups>>
               ELSE /\ stderr' = Complain(headers, Unwrap(index))
                    /\ LET field == HeaderAt(headers, Unwrap(index))
                       IN  IF field = None
                           THEN /\ pc' = "panicked"
                                /\ UNCHANGED <<group_field, groups>>
                           ELSE /\ group_field' = field
                                /\ groups' = GroupFrom(records, Unwrap(field), 1, <<>>)
                                /\ pc' = "sort"
        /\ UNCHANGED <<tty, args_name, line_num, scanVars, matching,
                       sort_field_index, sort_field, iter_order, kicad_lib,
                       output_lib, report>>

\* ----------------------------------------------------------------- sorting
\* str::cmp is Less or Equal: byte-wise lexicographic order.
StrLeq(a, b) ==
    \/ Len(a) <= Len(b) /\ \A i \in 1..Len(a) : a[i] = b[i]
    \/ \E k \in 1..Min(Len(a), Len(b)) :
          /\ \A i \in 1..(k - 1) : a[i] = b[i]
          /\ Ord(a[k]) < Ord(b[k])

\* The value a record is sorted by.
SortKey(recs, field, id) == Unwrap(FieldsGet(recs[id], field))

\* A mutant of the insertion: the record goes before the records it ties
\* with.
InsertBeforeTies(recs, field, sorted, id) ==
    LET before == {i \in 1..Len(sorted) :
                      /\ StrLeq(SortKey(recs, field, sorted[i]), SortKey(recs, field, id))
                      /\ SortKey(recs, field, sorted[i]) # SortKey(recs, field, id)}
        n == Cardinality(before)
    IN  SubSeq(sorted, 1, n) \o <<id>> \o SubSeq(sorted, n + 1, Len(sorted))

\* One step of the stable sort: the record goes after every record of the
\* sorted prefix that is not greater.
Insert(recs, field, sorted, id) ==
    LET before == {i \in 1..Len(sorted) :
                      StrLeq(SortKey(recs, field, sorted[i]), SortKey(recs, field, id))}
        n == Cardinality(before)
    IN  SubSeq(sorted, 1, n) \o <<id>> \o SubSeq(sorted, n + 1, Len(sorted))

\* group.sort_by(|a, b| a.fields[sort_field].cmp(b.fields[sort_field])) : a
\* stable sort, the first n records of the group already placed in sorted.
RECURSIVE SortFrom(_, _, _, _, _)
SortFrom(recs, field, group, n, sorted) ==
    IF n >= Len(group) THEN sorted
    ELSE SortFrom(recs, field, group, n + 1,
                  Insert(recs, field, sorted, group[n + 1]))

sort_by(recs, field, group) == SortFrom(recs, field, group, 0, <<>>)

\* Lines 139-168: the sort selector is read, checked and used.
ReadSortField ==
    \E input \in SelectorInputs :
        /\ pc = "sort"
        /\ sort_field_index' = ParseUsize(input)
        /\ LET index == ParseUsize(input)
           IN  IF index = None
               THEN /\ pc' = "panicked"
                    /\ UNCHANGED <<stderr, sort_field, groups>>
               ELSE /\ stderr' = Complain(headers, Unwrap(index))
                    /\ LET field == HeaderAt(headers, Unwrap(index))
                       IN  IF field = None
                           THEN /\ pc' = "panicked"
                                /\ UNCHANGED <<sort_field, groups>>
                           ELSE /\ sort_field' = field
                                /\ groups' = [k \in DOMAIN groups |->
                                                sort_by(records, Unwrap(field), groups[k])]
                                /\ pc' = "emit"
        /\ UNCHANGED <<tty, args_name, line_num, scanVars, matching, field_index,
                       group_field, iter_order, kicad_lib, output_lib, report>>

\* ---------------------------------------------------------------- emission
\* A line of fixed text.
Text(t) == [kind |-> "text", text |-> t]

\* The orders in which a HashMap may iterate its keys: the standard
\* RandomState hasher is seeded per process, so the order is any order.
IterOrders(gs) ==
    LET keys == DOMAIN gs
        n    == Cardinality(keys)
    IN  {f \in [1..n -> keys] : \A k \in keys : \E i \in 1..n : f[i] = k}

\* args.name.unwrap_or("XilinxFPGA".to_string())
SymbolName(name) == IF name = None THEN "XilinxFPGA" ELSE Unwrap(name)

\* Lines 172-184: the library header and the DEF block's opening.
Preamble(gs, name) ==
    << Text("EESchema-LIBRARY Version 2.4"),
       Text("#encoding utf-8"),
       [kind |-> "DEF", name |-> SymbolName(name), units |-> Cardinality(DOMAIN gs)],
       Text("F0 \"U\" 0 300 50 H V C CNN"),
       Text("F1 \"FPGA\" 0 200 50 H V C CNN"),
       Text("F2 \"\" 0 0 50 H I C CNN"),
       Text("F3 \"\" 0 0 50 H I C CNN"),
       Text("DRAW") >>

\* Lines 211-213.
Postamble == << Text("ENDDRAW"), Text("ENDDEF"), Text("#"), Text("#End Library") >>

\* A mutant of the split point: the left edge takes the larger half.
HalfRoundedUp(n) == (n + 1) \div 2

\* group.len() / 2
Half(n) == n \div 2

\* "S 150 150 2850 -{} {} 1 0 f" : y2 is the number printed after the minus.
Body(n, unit) ==
    [kind |-> "S", x1 |-> 150, y1 |-> 150, x2 |-> 2850,
     y2 |-> Half(n) * 100 + 50, unit |-> unit]

posx(i, n) == IF i < Half(n) THEN 0 ELSE 3000
posy(i, n) == IF i < Half(n) THEN i * 100 ELSE (i - Half(n)) * 100
orientation(i, n) == IF i < Half(n) THEN "R" ELSE "L"

\* "X {} {} {} -{} 150 {} 50 50 {} 1 P" : posy is the number printed after
\* the minus.
PinLine(pin_name, pin, i, n, unit) ==
    [kind |-> "X", name |-> pin_name, pin |-> pin, posx |-> posx(i, n),
     posy |-> posy(i, n), length |-> 150, orientation |-> orientation(i, n),
     unit |-> unit]

\* A mutant of the lookup: a missing field reads as the empty text.
GetOrEmpty(rec, key) == IF key \in DOMAIN rec THEN Some(rec[key]) ELSE Some(<<>>)

\* record.fields.get(key) in the emitter
EmitGet(rec, key) == FieldsGet(rec, key)

\* Lines 192-206: the pins of one group from member i on.  out is the
\* document so far and whether an unwrap has panicked.
RECURSIVE EmitPins(_, _, _, _, _)
EmitPins(recs, group, i, unit, out) ==
    IF i >= Len(group) THEN out
    ELSE LET pin      == EmitGet(recs[group[i + 1]], Pin)
             pin_name == EmitGet(recs[group[i + 1]], PinName)
         IN  IF pin = None \/ pin_name = None
             THEN [lib |-> out.lib, ok |-> FALSE]
             ELSE EmitPins(recs, group, i + 1, unit,
                           [lib |-> Append(out.lib,
                                           PinLine(Unwrap(pin_name), Unwrap(pin),
                                                   i, Len(group), unit)),
                            ok |-> TRUE])

\* A mutant of the counter: every group gets unit 1.
SameUnit(unit_number) == unit_number

\* unit_number += 1
NextUnit(unit_number) == unit_number + 1

\* Lines 186-209: the groups from the g-th of the iteration order on.
RECURSIVE EmitGroups(_, _, _, _, _, _)
EmitGroups(recs, gs, order, g, unit_number, out) ==
    IF g > Len(order) \/ ~out.ok THEN out
    ELSE LET group == gs[order[g]]
             body  == [lib |-> Append(out.lib, Body(Len(group), unit_number)),
                       ok |-> TRUE]
         IN  EmitGroups(recs, gs, order, g + 1, NextUnit(unit_number),
                        EmitPins(recs, group, 0, unit_number, body))

\* Lines 171-213: the document, or the part of it built when a record lacks
\* Pin or Pin Name.
EmitDocument(recs, gs, order, name) ==
    LET out == EmitGroups(recs, gs, order, 1, 1,
                          [lib |-> Preamble(gs, name), ok |-> TRUE])
    IN  IF out.ok THEN [lib |-> out.lib \o Postamble, ok |-> TRUE] ELSE out

Emit ==
    \E order \in IterOrders(groups) :
        /\ pc = "emit"
        /\ iter_order' = order
        /\ LET out == EmitDocument(records, groups, order, args_name)
           IN  /\ kicad_lib' = out.lib
               /\ pc' = IF out.ok THEN "write" ELSE "panicked"
        /\ UNCHANGED <<tty, args_name, line_num, scanVars, matching, field_index,
                       sort_field_index, group_field, sort_field, groups, stderr,
                       output_lib, report>>

\* Lines 216-218: File::create and write_all.
WriteFile ==
    /\ pc = "write"
    /\ output_lib' = Some(kicad_lib)
    /\ pc' = "report"
    /\ UNCHANGED <<tty, args_name, line_num, scanVars, matching, field_index,
                   sort_field_index, group_field, sort_field, groups, iter_order,
                   stderr, kicad_lib, report>>

\* File::create(filename)? fails: main returns the error.
WriteFileFails ==
    /\ pc = "write"
    /\ pc' = "io_error"
    /\ UNCHANGED <<tty, args_name, line_num, scanVars, matching, lateVars>>

\* Lines 220-223.
Report ==
    /\ pc = "report"
    /\ report' = Some([pins |-> pins_count, units |-> Cardinality(DOMAIN groups)])
    /\ pc' = "done"
    /\ UNCHANGED <<tty, args_name, line_num, scanVars, matching, field_index,
                   sort_field_index, group_field, sort_field, groups, iter_order,
                   stderr, kicad_lib, output_lib>>

Next ==
    \/ OpenFile
    \/ OpenFileFails
    \/ SeekTableLine
    \/ ReadHeaderLine
    \/ ReadTableLine
    \/ EndLine
    \/ ReadLineFails
    \/ EndOfInput
    \/ ReadGroupField
    \/ ReadSortField
    \/ Emit
    \/ WriteFile
    \/ WriteFileFails
    \/ Report

Spec == Init /\ [][Next]_vars

\* ============================================================ properties
\* The document is complete: every group has been emitted.
DocBuilt == pc \in {"write", "report", "done"}

\* The lines of document doc of kind kind that carry unit number unit.
UnitLines(doc, kind, unit) ==
    SelectSeq(doc, LAMBDA l : l.kind = kind /\ l.unit = unit)

\* The lines of document doc of kind kind.
KindLines(doc, kind) == SelectSeq(doc, LAMBDA l : l.kind = kind)

\* The places (key, position) at which record id sits in the groups.
PlacesOf(id) ==
    {p \in UNION {{<<k, i>> : i \in 1..Len(groups[k])} : k \in DOMAIN groups} :
        groups[p[1]][p[2]] = id}

\* C1: the number of records stored equals the number of lines consumed in
\* ReadTable that are not blank and have as many fields (split on runs of two
\* or more whitespace after trimming) as there are headers; no other line
\* adds a record.
C1_RecordCount == Len(records) = matching

\* Five lines consumed, the scanner still in ReadTable, two records: one
\* table line was not blank and was dropped for its field count.
C1_Witness ==
    /\ pc = "group" /\ state = "ReadTable"
    /\ line_num = 5 /\ Len(records) = 2 /\ matching = 2

\* C2: when the table was terminated by a blank line, the pins parsed count
\* reported at the end of the run equals the number of records stored,
\* however many lines follow the terminating blank line.
C2_PinsReported ==
    (pc = "done" /\ state = "END") => Unwrap(report).pins = Len(records)

\* C3: a selector index not below the header count is reported and the run
\* halts before emission: no document is built, output.lib is not written.
C3_InvalidSelectorHalts ==
    \A index \in {field_index, sort_field_index} :
        (index # None /\ Unwrap(index) >= Len(headers)) =>
            /\ stderr # <<>>
            /\ \A i \in 1..Len(stderr) : stderr[i] = "Invalid field index"
            /\ pc = "panicked"
            /\ kicad_lib = <<>>
            /\ output_lib = None

\* The group selector was in range and the records were grouped; the sort
\* selector is out of range.
C3_Witness ==
    /\ group_field # None /\ DOMAIN groups # {}
    /\ sort_field_index # None
    /\ Unwrap(sort_field_index) >= Len(headers)

\* Some record of some group lacks Pin or Pin Name.
FaultyRecord ==
    \E k \in DOMAIN groups : \E i \in 1..Len(groups[k]) :
        \/ Pin \notin DOMAIN records[groups[k][i]]
        \/ PinName \notin DOMAIN records[groups[k][i]]

\* C4: when a record reached by the emission lacks Pin or Pin Name the
\* emission aborts and no document is written, not even a partial one.
C4_MissingFieldAborts ==
    (kicad_lib # <<>> /\ FaultyRecord) => (pc = "panicked" /\ output_lib = None)

\* The emission has started on records that have Pin but no Pin Name.
C4_Witness ==
    /\ kicad_lib # <<>>
    /\ \E k \in DOMAIN groups :
          /\ Pin \in DOMAIN records[groups[k][1]]
          /\ PinName \notin DOMAIN records[groups[k][1]]

\* C5: grouping is a partition: every parsed record is in exactly one group
\* at exactly one position, a group holds parsed records only, no group is
\* empty, and every record of a group has the group's key as the value of
\* the grouping field.
C5_Partition ==
    group_field # None =>
        /\ \A id \in 1..Len(records) : Cardinality(PlacesOf(id)) = 1
        /\ \A k \in DOMAIN groups :
              /\ groups[k] # <<>>
              /\ \A i \in 1..Len(groups[k]) :
                    /\ groups[k][i] \in 1..Len(records)
                    /\ records[groups[k][i]][Unwrap(group_field)] = k

\* Three records in two groups.
C5_Witness ==
    /\ group_field # None
    /\ Len(records) = 3
    /\ Cardinality(DOMAIN groups) = 2

\* The within-group sort has just run.
SortStep == pc = "sort" /\ pc' = "emit"

\* C6: after the within-group sort each group is in ascending lexicographic
\* order of the sort field, records with equal sort values keep the order
\* of the input table, the group's set of records is unchanged, and sorting
\* again changes nothing.
C6_StableSort ==
    [][SortStep =>
        /\ DOMAIN groups' = DOMAIN groups
        /\ \A k \in DOMAIN groups :
              LET before == groups[k]
                  after  == groups'[k]
                  key(id) == records[id][Unwrap(sort_field')]
              IN  /\ Len(after) = Len(before)
                  /\ {after[i] : i \in 1..Len(after)}
                        = {before[i] : i \in 1..Len(before)}
                  /\ \A p, q \in 1..Len(after) :
                        p < q => /\ StrLeq(key(after[p]), key(after[q]))
                                 /\ key(after[p]) = key(after[q])
                                       => after[p] < after[q]
                  /\ sort_by(records, Unwrap(sort_field'), after) = after
      ]_vars

\* A sorted group in which the sort moved a later row before an earlier one
\* and left two rows of equal sort value in place.
C6_Witness ==
    /\ pc = "emit"
    /\ \E k \in DOMAIN groups :
          /\ Len(groups[k]) = 3
          /\ groups[k][1] > groups[k][2]
          /\ records[groups[k][2]][Unwrap(sort_field)]
                = records[groups[k][3]][Unwrap(sort_field)]

\* C7: a group of n records has a body of half-height floor(n/2)*100 + 50;
\* its member i is at x = 0, facing R, y offset i*100 when i < floor(n/2),
\* and at x = 3000, facing L, y offset (i - floor(n/2))*100 otherwise, so
\* floor(n/2) pins are on the left edge and the others on the right edge.
C7_Layout ==
    DocBuilt =>
        \A g \in 1..Len(iter_order) :
            LET group  == groups[iter_order[g]]
                n      == Len(group)
                bodies == UnitLines(kicad_lib, "S", g)
                pins   == UnitLines(kicad_lib, "X", g)
            IN  /\ Len(bodies) = 1
                /\ bodies[1].y2 = (n \div 2) * 100 + 50
                /\ Len(pins) = n
                /\ \A i \in 0..(n - 1) :
                      /\ pins[i + 1].pin = records[group[i + 1]][Pin]
                      /\ pins[i + 1].name = records[group[i + 1]][PinName]
                      /\ IF i < n \div 2
                         THEN /\ pins[i + 1].posx = 0
                              /\ pins[i + 1].orientation = "R"
                              /\ pins[i + 1].posy = i * 100
                         ELSE /\ pins[i + 1].posx = 3000
                              /\ pins[i + 1].orientation = "L"
                              /\ pins[i + 1].posy = (i - n \div 2) * 100
                /\ Cardinality({i \in 1..n : pins[i].posx = 0}) = n \div 2
                /\ Cardinality({i \in 1..n : pins[i].posx = 3000}) = n - n \div 2

\* A finished run with a group of three records.
C7_Witness ==
    /\ pc = "done"
    /\ \E k \in DOMAIN groups : Len(groups[k]) = 3

\* C8: the declared unit count is the number of groups, there is one body
\* per group, the unit numbers are exactly 1..(number of groups), one per
\* group, and a group's unit number is on as many pin lines as the group has
\* records.
C8_Units ==
    DocBuilt =>
        LET n      == Cardinality(DOMAIN groups)
            bodies == KindLines(kicad_lib, "S")
            defs   == KindLines(kicad_lib, "DEF")
        IN  /\ Len(defs) = 1
            /\ defs[1].units = n
            /\ Len(bodies) = n
            /\ {bodies[i].unit : i \in 1..Len(bodies)} = 1..n
            /\ Len(iter_order) = n
            /\ {iter_order[g] : g \in 1..n} = DOMAIN groups
            /\ \A g \in 1..n :
                  Len(UnitLines(kicad_lib, "X", g)) = Len(groups[iter_order[g]])
            /\ Len(KindLines(kicad_lib, "X")) = Len(records)

\* A finished run with a group of two records and a group of one.
C8_Witness ==
    /\ pc = "done"
    /\ Cardinality(DOMAIN groups) = 2
    /\ \E k \in DOMAIN groups : Len(groups[k]) = 2

\* The place of a scanner state in SeekTable, ReadHeader, ReadTable, END.
Rank(st) ==
    CASE st = "SeekTable" -> 0
      [] st = "ReadHeader" -> 1
      [] st = "ReadTable" -> 2
      [] st = "END" -> 3

\* C9: the scanner state stays or advances to the next state of SeekTable,
\* ReadHeader, ReadTable, END and never moves backward; once it is END it
\* stays END and the headers and the records change no more.
C9_ForwardOnly ==
    [][ /\ Rank(state') \in {Rank(state), Rank(state) + 1}
        /\ state = "END" =>
              /\ state' = "END"
              /\ headers' = headers
              /\ records' = records
      ]_vars

\* A line was consumed after the table, which has a record, had ended.
C9_Witness == state = "END" /\ pins_count > 0 /\ Len(records) = pins_count

\* C10: the document is a function of the records, the selections and the
\* symbol name: the document this run built is the document every run on
\* these inputs builds, whatever order its HashMap iterates in.
C10_Deterministic ==
    DocBuilt =>
        \A order \in IterOrders(groups) :
            EmitDocument(records, groups, order, args_name).lib = kicad_lib

====
